---- MODULE Spec2Model ----
(***************************************************************************)
(* The snow overlay of tarelka: the Snowflake particle, the SnowEffect     *)
(* population manager, the simulation step, the batched renderer and the   *)
(* overlay controller.                                                     *)
(*                                                                         *)
(* The repository holds two definitions of SnowEffect: src/src/snow.js     *)
(* (the module main.js imports) and the class exported by src/src/utils.js *)
(* (lines 125-346).  The variable impl says which of the two was           *)
(* instantiated; every handler is modelled once per definition wherever    *)
(* the two differ.                                                         *)
(*                                                                         *)
(* JavaScript Numbers are modelled as exact fixed-point values: a          *)
(* coordinate, radius, speed or opacity v is held as the integer v * U.    *)
(* Math.random() is modelled as a value r/1000 with r in 0..999; the       *)
(* sequence of values one handler call consumes is a periodic stream       *)
(* drawn from RandomStreams.  delta is held in frames (delta * 60).        *)
(*                                                                         *)
(* Specifications:                                                         *)
(*   Spec          population, simulation step and renderer of SnowEffect  *)
(*   SpecLife      the life of the overlay on a page: construction (which  *)
(*                 may fail), stored preference, debounced window resize,  *)
(*                 cleanup() and reloads                                   *)
(*   SpecFrames    the host's animation loop and visibilitychange listener *)
(*                 (main.js and the older src/unnamed/part_001)            *)
(*   SpecLoader    loadModel() with its retries (loader.js)                *)
(*   SpecDebounce  debounce(func, wait) against a clock (utils.js)         *)
(*   SpecControls  the drag-to-rotate controls and updateRotation          *)
(*                 (controls.js); angles are held in units of 1/R rad      *)
(***************************************************************************)
EXTENDS Integers, Sequences, FiniteSets, Bags, TLC

VARIABLES
    impl,          \* "snow" (src/src/snow.js) or "utils" (src/src/utils.js)
    phase,         \* "none" before construction, "live" after it, "standin"
                   \* when the host fell back to its no-op object,
                   \* "cleaned" after cleanup()
    canvasWidth,   \* this.canvas.width
    canvasHeight,  \* this.canvas.height
    snowflakes,    \* this.snowflakes
    enabled,       \* this.enabled
    nextId,        \* object identities handed out so far
    ctxLog,        \* the calls the last draw() issued on this.ctx
    lastOp,        \* the handler that ran last, with its inputs
    prevFlakes,    \* this.snowflakes as it was when that handler started
    nOps,          \* handler calls since construction
    stored,        \* localStorage's 'snowEnabled'
    month,         \* new Date().getMonth() + 1
    window,        \* <<window.innerWidth, window.innerHeight>>
    listener,      \* resizeHandler is registered on window
    attached,      \* this.canvas has a parentNode
    timer,         \* the timeout of resizeHandler: "none" or "pending"
    ctxOk,         \* this.ctx is a context (FALSE: it is null)
    thrown,        \* the handler that ran last raised an error
    painted,       \* the paint calls showing on the canvas
    toggleVal,     \* String(enabled) as the latest toggle() left it
    prevLife,      \* Life as it was when the toggle() or cleanup() that ran
                   \* last started
    host,          \* "main" (src/src/main.js) or "part_001" (the older
                   \* main module, src/unnamed/part_001)
    hidden,        \* document.hidden
    animationId,   \* animationId of the host; 0 stands for null
    pendingFrames, \* ids of the requestAnimationFrame callbacks pending
    nextRaf,       \* the id the next requestAnimationFrame returns
    frameRuns,     \* animate() runs during the latest displayed frame
    ldEl,          \* the page has a #loading element
    ldFill,        \* the page has a #progress-fill element
    ps1Style,      \* CONFIG.ps1Style
    ldState,       \* "idle", "loading", "retryWait" (retry timeout pending),
                   \* "loaded" or "failed"
    ldAttempt,     \* attemptNumber of the latest loadModel() call
    ldStarted,     \* loader.load() calls so far
    ldSuccess,     \* onSuccess calls so far
    ldUi,          \* what #loading shows: "page", "attempt", "retrying",
                   \* "hidden" or "error"
    ldNow,         \* aria-valuenow of #progress-bar
    ldFlat,        \* material.flatShading of the loaded model
    ldFinal,       \* ldStarted when the load succeeded or finally failed
    dbWait,        \* wait of the debounced function under study
    dbNow,         \* the clock, in ms
    dbTimeout,     \* its timeout: <<time due, arguments held>>, or none
    dbLog,         \* its calls, cancel() calls and executions of func
    mouseState,    \* mouseState of initializeControls()
    modelRotation, \* model.rotation: [x, y]
    ctlLast,       \* the latest event of the controls, with mouseState and
                   \* ctlDrag as they were before it
    ctlDrag,       \* whether a drag is in progress by the events alone, and
                   \* where it started
    nCtl           \* events of the controls so far

vars == <<impl, phase, canvasWidth, canvasHeight, snowflakes, enabled,
          nextId, ctxLog, lastOp, prevFlakes, nOps, stored, month, window,
          listener, attached, timer, ctxOk, thrown, painted, toggleVal,
          prevLife, host, hidden, animationId, pendingFrames, nextRaf,
          frameRuns, ldEl, ldFill, ps1Style, ldState, ldAttempt, ldStarted,
          ldSuccess, ldUi, ldNow, ldFlat, ldFinal, dbWait, dbNow, dbTimeout,
          dbLog, mouseState, modelRotation, ctlLast, ctlDrag, nCtl>>

\* The state of the snow overlay and of its page
snowVars == <<impl, phase, canvasWidth, canvasHeight, snowflakes, enabled,
              nextId, ctxLog, lastOp, prevFlakes, nOps, stored, month, window,
              listener, attached, timer, ctxOk, thrown, painted, toggleVal,
              prevLife>>

\* The state of the host's animation loop
frameVars == <<host, hidden, animationId, pendingFrames, nextRaf, frameRuns>>

\* The state of the model loader
loaderVars == <<ldEl, ldFill, ps1Style, ldState, ldAttempt, ldStarted,
                ldSuccess, ldUi, ldNow, ldFlat, ldFinal>>

\* The state of the debounced function under study
debounceVars == <<dbWait, dbNow, dbTimeout, dbLog>>

\* The state of the drag-to-rotate controls
controlVars == <<mouseState, modelRotation, ctlLast, ctlDrag, nCtl>>

\* The state outside the snow overlay
otherVars == <<frameVars, loaderVars, debounceVars, controlVars>>

----------------------------------------------------------------------------
(* Bounds of the model *)

MaxOps == 3

\* Calls of the debounced function and of its cancel()
MaxCalls == 3

\* Events of the drag-to-rotate controls
MaxCtl == 4

\* window.innerWidth x window.innerHeight at the time resize() runs
Viewports == { <<240, 200>>, <<220, 200>>, <<109, 400>>, <<0, 0>> }

\* Streams of Math.random() values, in thousandths, repeated cyclically
RandomStreams == { <<999>>, <<650, 600>>, <<900, 500, 100>> }

\* delta * 60: no time, one 60fps frame, one second, ten seconds
Deltas == { 0, 1, 60, 600 }

\* Values of localStorage's 'snowEnabled': absent, written by toggle(), or
\* written by something else
StoredValues == { "<null>", "true", "false", "1" }

\* Months of the year the page is loaded in
Months == { 1, 7, 12 }

\* Windows and the Math.random() stream of the life-cycle specification
LifeViewports == { <<109, 400>>, <<0, 0>> }

LifeStream == <<900, 500, 100>>

\* What creating the canvas and its context does
Outcomes == { "ok", "throws", "null" }

----------------------------------------------------------------------------
(* Program constants *)

U == 100000

flakesPerArea == 4000

MIN_SNOWFLAKES == 10

SMALL_FLAKE_THRESHOLD == 2

\* [0.3, 0.4, 0.3] in tenths; layer L is entry L + 1
LAYER_DISTRIBUTION == <<3, 4, 3>>

Layers == {0, 1, 2}

Max(a, b) == IF a > b THEN a ELSE b

Min(a, b) == IF a < b THEN a ELSE b

\* Math.floor(a / b) for b > 0
Floor(a, b) == a \div b

\* Math.round(a / b) for b > 0: floor(a/b + 0.5)
Round(a, b) == (2 * a + b) \div (2 * b)

\* The i-th value (from 0) a handler call reads from Math.random()
RandAt(s, i) == s[(i % Len(s)) + 1]

----------------------------------------------------------------------------
(* Snowflake *)

\* `rgba(255, 255, 255, ${opacity})`
FillStyle(opacity) == <<"rgba", 255, 255, 255, opacity>>

\* 0.5 + layer * 0.3, in tenths
LayerScale(layer) == 5 + layer * 3

\* Math.random() calls one reset() makes
ResetDraws(initial) == IF initial THEN 6 ELSE 5

\* Snowflake.reset of src/src/utils.js: opacity is quantized to 0.1
Opacity_utils(r, layer) == Round((3000 + 4 * r) * LayerScale(layer), 10000) * (U \div 10)

\* Snowflake.reset of src/src/snow.js: opacity is not quantized
Opacity_snow(r, layer) == (3000 + 4 * r) * LayerScale(layer)

Opacity(im, r, layer) ==
    IF im = "utils" THEN Opacity_utils(r, layer) ELSE Opacity_snow(r, layer)

\* Faulty variant of ResetY: the initial flag is ignored and every reset
\* lands at a random height
ResetY_alwaysRandom(canvasH, initial, r) == r * canvasH * (U \div 1000)

\* The vertical position reset() assigns
ResetY(canvasH, initial, r) ==
    IF initial THEN r * canvasH * (U \div 1000) ELSE -10 * U

\* Snowflake.reset(canvasWidth, canvasHeight, layer, initial), reading
\* Math.random() from position i of stream s
reset(im, f, canvasW, canvasH, layer, initial, s, i) ==
    LET j == IF initial THEN i + 2 ELSE i + 1
        op == Opacity(im, RandAt(s, j + 3), layer)
    IN  [ id           |-> f.id,
          x            |-> RandAt(s, i) * canvasW * (U \div 1000),
          y            |-> ResetY(canvasH, initial, RandAt(s, i + 1)),
          layer        |-> layer,
          radius       |-> (2000 + 5 * RandAt(s, j)) * LayerScale(layer) * 5,
          speed        |-> (500 + RandAt(s, j + 1)) * LayerScale(layer) * 10,
          drift        |-> (RandAt(s, j + 2) - 500) * 5 * LayerScale(layer),
          opacity      |-> op,
          fillStyle    |-> FillStyle(op),
          canvasWidth  |-> canvasW,
          canvasHeight |-> canvasH ]

\* new Snowflake(canvasWidth, canvasHeight, layer)
NewSnowflake(im, id, canvasW, canvasH, layer, s, i) ==
    reset(im, [id |-> id], canvasW, canvasH, layer, TRUE, s, i)

\* Faulty variant of OutOfBounds: the margin below the bottom edge is doubled
OutOfBounds_wideMargin(f, y1) == y1 > (f.canvasHeight + 20) * U

\* Whether update() finds the flake below the bottom edge
OutOfBounds(f, y1) == y1 > (f.canvasHeight + 10) * U

\* Faulty variant of Wrap: the overshoot is carried over to the other edge
Wrap_carryOver(x, canvasW) ==
    IF x > (canvasW + 10) * U THEN x - (canvasW + 20) * U
    ELSE IF x < -10 * U THEN x + (canvasW + 20) * U
    ELSE x

\* The horizontal wrap at the end of update()
Wrap(x, canvasW) ==
    IF x > (canvasW + 10) * U THEN -10 * U
    ELSE IF x < -10 * U THEN (canvasW + 10) * U
    ELSE x

\* Faulty variant of SnowflakeUpdate: a flake past the bottom edge is
\* replaced by a new object
SnowflakeUpdate_replace(im, f, d, s, i) ==
    LET y1 == f.y + f.speed * d
        x1 == f.x + f.drift * d
        g  == IF OutOfBounds(f, y1)
              THEN reset(im, [id |-> f.id + 1000], f.canvasWidth, f.canvasHeight,
                         f.layer, FALSE, s, i)
              ELSE [f EXCEPT !.x = x1, !.y = y1]
    IN  [g EXCEPT !.x = Wrap(g.x, g.canvasWidth)]

\* Snowflake.update(delta): the flake afterwards
SnowflakeUpdate(im, f, d, s, i) ==
    LET y1 == f.y + f.speed * d
        x1 == f.x + f.drift * d
        g  == IF OutOfBounds(f, y1)
              THEN reset(im, f, f.canvasWidth, f.canvasHeight, f.layer, FALSE, s, i)
              ELSE [f EXCEPT !.x = x1, !.y = y1]
    IN  [g EXCEPT !.x = Wrap(g.x, g.canvasWidth)]

\* Math.random() calls that update(delta) makes on flake f
UpdateDraws(f, d) ==
    IF OutOfBounds(f, f.y + f.speed * d) THEN ResetDraws(FALSE) ELSE 0

----------------------------------------------------------------------------
(* SnowEffect: the population *)

\* Math.max(Math.floor((canvasWidth * canvasHeight) / flakesPerArea), MIN_SNOWFLAKES)
TargetTotal_utils(canvasW, canvasH) ==
    Max(Floor(canvasW * canvasH, flakesPerArea), MIN_SNOWFLAKES)

\* Math.floor((canvasWidth * canvasHeight) / flakesPerArea)
TargetTotal_snow(canvasW, canvasH) == Floor(canvasW * canvasH, flakesPerArea)

\* Faulty variant of pickLayer_utils: a fourth layer above the foreground
pickLayer_utils_fourLayers(r) ==
    IF r < LAYER_DISTRIBUTION[1] * 100 THEN 0
    ELSE IF r < (LAYER_DISTRIBUTION[1] + LAYER_DISTRIBUTION[2]) * 100 THEN 1
    ELSE IF r < 900 THEN 2
    ELSE 3

\* _pickLayer() of src/src/utils.js, r being its Math.random() value
pickLayer_utils(r) ==
    IF r < LAYER_DISTRIBUTION[1] * 100 THEN 0
    ELSE IF r < (LAYER_DISTRIBUTION[1] + LAYER_DISTRIBUTION[2]) * 100 THEN 1
    ELSE 2

\* _pickLayer(index, total) of src/src/snow.js: ratio = index / total
pickLayer_snow(index, total) ==
    IF index * 10 < LAYER_DISTRIBUTION[1] * total THEN 0
    ELSE IF index * 10 < (LAYER_DISTRIBUTION[1] + LAYER_DISTRIBUTION[2]) * total THEN 1
    ELSE 2

\* Math.floor(targetTotal * LAYER_DISTRIBUTION[layer])
LayerTarget(targetTotal, layer) ==
    Floor(targetTotal * LAYER_DISTRIBUTION[layer + 1], 10)

\* array.slice(0, n)
Slice(seq, n) == SubSeq(seq, 1, Min(n, Len(seq)))

\* this.snowflakes.filter(f => f.layer === layer)
LayerFlakes(flakes, layer) ==
    LET IsLayer(f) == f.layer = layer IN SelectSeq(flakes, IsLayer)

\* The growth loop of src/src/utils.js: toAdd flakes pushed, flake k reading
\* Math.random() from position 7 * k
Grow_utils(flakes, toAdd, canvasW, canvasH, s, nid) ==
    flakes \o [ k \in 1..toAdd |->
        NewSnowflake("utils", nid + k - 1, canvasW, canvasH,
                     pickLayer_utils(RandAt(s, 7 * (k - 1))), s, 7 * (k - 1) + 1) ]

\* The growth loop of src/src/snow.js, reading Math.random() from position i0
Grow_snow(flakes, toAdd, canvasW, canvasH, s, i0, nid) ==
    flakes \o [ k \in 1..toAdd |->
        NewSnowflake("snow", nid + k - 1, canvasW, canvasH,
                     pickLayer_snow(k - 1, toAdd), s, i0 + 6 * (k - 1)) ]

\* Faulty variant of Shrink_utils: per layer, the last layerTarget flakes
Shrink_utils_keepLast(flakes, targetTotal) ==
    LET Last(seq, n) == SubSeq(seq, Len(seq) - Min(n, Len(seq)) + 1, Len(seq))
    IN  Last(LayerFlakes(flakes, 0), LayerTarget(targetTotal, 0))
        \o Last(LayerFlakes(flakes, 1), LayerTarget(targetTotal, 1))
        \o Last(LayerFlakes(flakes, 2), LayerTarget(targetTotal, 2))

\* The shrink branch of src/src/utils.js: per layer, the first layerTarget flakes
Shrink_utils(flakes, targetTotal) ==
    Slice(LayerFlakes(flakes, 0), LayerTarget(targetTotal, 0))
    \o Slice(LayerFlakes(flakes, 1), LayerTarget(targetTotal, 1))
    \o Slice(LayerFlakes(flakes, 2), LayerTarget(targetTotal, 2))

\* The shrink branch of src/src/snow.js: this.snowflakes.length = targetTotal
Shrink_snow(flakes, targetTotal) == Slice(flakes, targetTotal)

\* _adjustFlakeCount(canvasWidth, canvasHeight) of src/src/utils.js
adjustFlakeCount_utils(flakes, canvasW, canvasH, s, nid) ==
    LET targetTotal  == TargetTotal_utils(canvasW, canvasH)
        currentTotal == Len(flakes)
    IN  IF targetTotal > currentTotal
        THEN Grow_utils(flakes, targetTotal - currentTotal, canvasW, canvasH, s, nid)
        ELSE IF targetTotal < currentTotal
        THEN Shrink_utils(flakes, targetTotal)
        ELSE flakes

\* _adjustFlakeCount(canvasWidth, canvasHeight) of src/src/snow.js
adjustFlakeCount_snow(flakes, canvasW, canvasH, s, nid) ==
    LET targetTotal  == TargetTotal_snow(canvasW, canvasH)
        currentTotal == Len(flakes)
    IN  IF targetTotal > currentTotal
        THEN Grow_snow(flakes, targetTotal - currentTotal, canvasW, canvasH, s, 0, nid)
        ELSE IF targetTotal < currentTotal
        THEN Shrink_snow(flakes, targetTotal)
        ELSE flakes

\* Faulty variant of UpdateBounds: the flakes keep their old bounds
UpdateBounds_skip(flakes, w, h) ==
    flakes

\* The forEach of resize(): every flake's cached bounds are updated
UpdateBounds(flakes, w, h) ==
    [ k \in 1..Len(flakes) |->
        [flakes[k] EXCEPT !.canvasWidth = w, !.canvasHeight = h] ]

\* resize(): this.snowflakes afterwards, w x h being the window's inner size
resizeFlakes(im, flakes, w, h, s, nid) ==
    IF im = "utils"
    THEN adjustFlakeCount_utils(UpdateBounds(flakes, w, h), w, h, s, nid)
    ELSE adjustFlakeCount_snow(UpdateBounds(flakes, w, h), w, h, s, nid)

\* Math.random() calls the growth of one resize() makes in src/src/snow.js
GrowDraws_snow(flakes, w, h) ==
    6 * Max(TargetTotal_snow(w, h) - Len(flakes), 0)

\* The layer of the k-th flake (from 1) createSnowflakes() pushes
CreateLayer(numFlakes, k) ==
    IF k <= LayerTarget(numFlakes, 0) THEN 0
    ELSE IF k <= LayerTarget(numFlakes, 0) + LayerTarget(numFlakes, 1) THEN 1
    ELSE 2

\* createSnowflakes() of src/src/snow.js, reading Math.random() from position i0
createSnowflakes(flakes, w, h, s, i0, nid) ==
    LET numFlakes == TargetTotal_snow(w, h)
        count == LayerTarget(numFlakes, 0) + LayerTarget(numFlakes, 1)
                 + LayerTarget(numFlakes, 2)
    IN  flakes \o [ k \in 1..count |->
            NewSnowflake("snow", nid + k - 1, w, h, CreateLayer(numFlakes, k),
                         s, i0 + 6 * (k - 1)) ]

\* The population the constructor leaves: resize(), and in src/src/snow.js
\* createSnowflakes() after it
constructFlakes(im, w, h, s) ==
    IF im = "utils"
    THEN resizeFlakes("utils", <<>>, w, h, s, 0)
    ELSE LET grown == resizeFlakes("snow", <<>>, w, h, s, 0)
         IN  createSnowflakes(grown, w, h, s, GrowDraws_snow(<<>>, w, h), Len(grown))

----------------------------------------------------------------------------
(* SnowEffect: the simulation step *)

RECURSIVE StepAll(_, _, _, _, _, _)
\* this.snowflakes.forEach(flake => flake.update(delta)), from flake k on, the
\* next Math.random() value being at position i
StepAll(im, flakes, k, d, s, i) ==
    IF k > Len(flakes) THEN flakes
    ELSE StepAll(im, [flakes EXCEPT ![k] = SnowflakeUpdate(im, flakes[k], d, s, i)],
                 k + 1, d, s, i + UpdateDraws(flakes[k], d))

\* Faulty variant of update: the enabled guard is missing
update_noGuard(im, flakes, en, d, s) == StepAll(im, flakes, 1, d, s, 0)

\* update(delta): this.snowflakes afterwards
update(im, flakes, en, d, s) ==
    IF ~en THEN flakes ELSE StepAll(im, flakes, 1, d, s, 0)

----------------------------------------------------------------------------
(* SnowEffect: the batched renderer *)

\* Faulty variant of GroupKeys: a group is opened for every flake
GroupKeys_perFlake(flakes, k, seen) ==
    [ n \in 1..Len(flakes) |-> flakes[n].fillStyle ]

RECURSIVE GroupKeys(_, _, _)
\* The keys of the groups Map of draw(), in insertion order: the distinct
\* fillStyle values of flakes k.. in order of first appearance
GroupKeys(flakes, k, seen) ==
    IF k > Len(flakes) THEN seen
    ELSE IF \E n \in 1..Len(seen) : seen[n] = flakes[k].fillStyle
    THEN GroupKeys(flakes, k + 1, seen)
    ELSE GroupKeys(flakes, k + 1, Append(seen, flakes[k].fillStyle))

\* group.small of the group keyed by style
GroupSmall(flakes, style) ==
    LET In(f) == f.fillStyle = style /\ f.radius <= SMALL_FLAKE_THRESHOLD * U
    IN  SelectSeq(flakes, In)

\* group.large of the group keyed by style
GroupLarge(flakes, style) ==
    LET In(f) == f.fillStyle = style /\ ~(f.radius <= SMALL_FLAKE_THRESHOLD * U)
    IN  SelectSeq(flakes, In)

\* Faulty variant of FillRectCall: the square is not centred on the flake
FillRectCall_uncentred(f) ==
    <<"fillRect", f.x, f.y, f.radius * 2, f.radius * 2>>

\* ctx.fillRect(flake.x - flake.radius, flake.y - flake.radius, d, d)
FillRectCall(f) ==
    <<"fillRect", f.x - f.radius, f.y - f.radius, f.radius * 2, f.radius * 2>>

\* The Path2D of a group: moveTo and arc for each large flake
GroupPath(large) ==
    [ n \in 1..(2 * Len(large)) |->
        LET f == large[(n + 1) \div 2]
        IN  IF n % 2 = 1 THEN <<"moveTo", f.x + f.radius, f.y>>
            ELSE <<"arc", f.x, f.y, f.radius>> ]

\* Faulty variant of GroupCalls: every large flake gets a path and a fill of
\* its own
GroupCalls_fillPerFlake(flakes, style) ==
    LET small == GroupSmall(flakes, style)
        large == GroupLarge(flakes, style)
    IN  << <<"fillStyle", style>> >>
        \o [ n \in 1..Len(small) |-> FillRectCall(small[n]) ]
        \o [ n \in 1..Len(large) |-> <<"fill", GroupPath(<<large[n]>>)>> ]

\* The body of the loop over groups, for one group
GroupCalls(flakes, style) ==
    LET small == GroupSmall(flakes, style)
        large == GroupLarge(flakes, style)
    IN  << <<"fillStyle", style>> >>
        \o [ n \in 1..Len(small) |-> FillRectCall(small[n]) ]
        \o (IF Len(large) > 0 THEN << <<"fill", GroupPath(large)>> >> ELSE << >>)

RECURSIVE AllGroupCalls(_, _, _)
\* The loop over groups, from group n on
AllGroupCalls(flakes, keys, n) ==
    IF n > Len(keys) THEN << >>
    ELSE GroupCalls(flakes, keys[n]) \o AllGroupCalls(flakes, keys, n + 1)

\* draw() while enabled: the calls issued on ctx
draw(flakes, w, h) ==
    << <<"clearRect", 0, 0, w, h>> >>
    \o AllGroupCalls(flakes, GroupKeys(flakes, 1, << >>), 1)

\* The surface after the calls of log are issued on a surface showing
\* `surface`: clearRect over the whole canvas wipes it, fillRect and fill
\* paint
Paint(surface, log) ==
    LET Clears == { n \in 1..Len(log) : log[n][1] = "clearRect" }
        last == IF Clears = {} THEN 0
                ELSE CHOOSE n \in Clears : \A m \in Clears : m <= n
    IN  (IF last = 0 THEN surface ELSE {})
        \cup { log[n] : n \in { m \in 1..Len(log) :
                                  m > last /\ log[m][1] \in {"fillRect", "fill"} } }

----------------------------------------------------------------------------
(* Preference and season *)

\* localStorage.getItem('snowEnabled') when nothing is stored
NoStored == "<null>"

\* CONFIG.snow.winterMonths
winterMonths == {12, 1}

\* isSnowSeason(winterMonths), the current month being m (1..12)
isSnowSeason(m) == m \in winterMonths

\* String(this.enabled)
String(b) == IF b THEN "true" ELSE "false"

\* Faulty variant of InitialEnabled: the seasonal default wins in winter
InitialEnabled_seasonFirst(st, m) ==
    IF isSnowSeason(m) THEN TRUE ELSE st = "true"

\* this.enabled as the constructor sets it, st being the stored preference
InitialEnabled(st, m) ==
    IF st # NoStored THEN st = "true" ELSE isSnowSeason(m)

----------------------------------------------------------------------------
(* The state machine *)

NoOp == [name |-> "none", w |-> 0, h |-> 0, delta |-> 0]

NoLife == [phase |-> "none"]

\* The state of one SnowEffect and of what it attached to the page
Life ==
    [phase |-> phase, listener |-> listener, attached |-> attached,
     timer |-> timer, enabled |-> enabled, stored |-> stored,
     canvasWidth |-> canvasWidth, canvasHeight |-> canvasHeight,
     snowflakes |-> snowflakes, painted |-> painted]

\* The animation loop before initializeApp() has run
FramesIdle ==
    /\ host = "main"
    /\ hidden = FALSE
    /\ animationId = 0
    /\ pendingFrames = {}
    /\ nextRaf = 1
    /\ frameRuns = 0

\* State while loadModel() has not been called
LoaderIdle ==
    /\ ldEl = FALSE
    /\ ldFill = FALSE
    /\ ps1Style = FALSE
    /\ ldState = "idle"
    /\ ldAttempt = 0
    /\ ldStarted = 0
    /\ ldSuccess = 0
    /\ ldUi = "page"
    /\ ldNow = 0
    /\ ldFlat = "none"
    /\ ldFinal = 0

\* timeout when no timeout is set
NoTimeout == << >>

\* No debounced function exists
DebounceIdle ==
    /\ dbWait = 0
    /\ dbNow = 0
    /\ dbTimeout = NoTimeout
    /\ dbLog = << >>

\* mouseState as initializeControls() creates it
NewMouseState ==
    [isDragging |-> FALSE, previousX |-> 0, previousY |-> 0,
     startX |-> 0, startY |-> 0, velocityX |-> 0, velocityY |-> 0,
     rotationX |-> 0, rotationY |-> 0, defaultRotationY |-> 0]

\* The controls before any event
ControlsIdle ==
    /\ mouseState = NewMouseState
    /\ modelRotation = [x |-> 0, y |-> 0]
    /\ ctlLast = [kind |-> "none", x |-> 0, y |-> 0, n |-> 0,
                  before |-> NewMouseState,
                  drag |-> [on |-> FALSE, x |-> 0, y |-> 0]]
    /\ ctlDrag = [on |-> FALSE, x |-> 0, y |-> 0]
    /\ nCtl = 0

\* A page load: no SnowEffect yet, the stored preference drawn from
\* storedSet and the month from months
InitWith(storedSet, months) ==
    /\ impl \in {"snow", "utils"}
    /\ phase = "none"
    /\ canvasWidth = 0
    /\ canvasHeight = 0
    /\ snowflakes = << >>
    /\ enabled = FALSE
    /\ nextId = 0
    /\ ctxLog = << >>
    /\ lastOp = NoOp
    /\ prevFlakes = << >>
    /\ nOps = 0
    /\ stored \in storedSet
    /\ month \in months
    /\ window = <<0, 0>>
    /\ listener = FALSE
    /\ attached = FALSE
    /\ timer = "none"
    /\ ctxOk = TRUE
    /\ thrown = FALSE
    /\ painted = {}
    /\ toggleVal = "none"
    /\ prevLife = NoLife

\* A first visit, in January or in July
Init == InitWith({NoStored}, {1, 7}) /\ FramesIdle /\ LoaderIdle /\ DebounceIdle /\ ControlsIdle

\* new SnowEffect() inside the host's try/catch, the window being
\* v[1] x v[2]. outcome is what creating the surface does: "ok", "throws"
\* (createElement or getContext raises) or "null" (getContext returns null).
\* A constructor that raises leaves the host with its no-op stand-in.
Construct(v, s, outcome) ==
    /\ phase = "none"
    /\ window' = v
    /\ IF outcome = "throws"
       THEN /\ phase' = "standin"
            /\ enabled' = FALSE
            /\ thrown' = TRUE
            /\ UNCHANGED <<canvasWidth, canvasHeight, snowflakes, nextId,
                           listener, attached, ctxOk>>
       ELSE /\ phase' = "live"
            /\ ctxOk' = (outcome = "ok")
            /\ enabled' = InitialEnabled(stored, month)
            /\ attached' = TRUE
            /\ canvasWidth' = v[1]
            /\ canvasHeight' = v[2]
            /\ snowflakes' = constructFlakes(impl, v[1], v[2], s)
            /\ nextId' = Len(snowflakes')
            /\ listener' = TRUE
            /\ thrown' = FALSE
    /\ prevFlakes' = snowflakes
    /\ prevLife' = NoLife
    /\ lastOp' = [name |-> "construct", w |-> v[1], h |-> v[2], delta |-> 0]
    /\ UNCHANGED <<impl, ctxLog, nOps, stored, month, timer, painted, toggleVal>>
    /\ UNCHANGED otherVars

\* The body of resize(), the window being v[1] x v[2]; assigning
\* canvas.width resets the surface
ResizeBody(v, s) ==
    /\ canvasWidth' = v[1]
    /\ canvasHeight' = v[2]
    /\ painted' = {}
    /\ snowflakes' = resizeFlakes(impl, snowflakes, v[1], v[2], s, nextId)
    /\ nextId' = nextId + Max(Len(snowflakes') - Len(snowflakes), 0)
    /\ prevFlakes' = snowflakes
    /\ prevLife' = NoLife
    /\ thrown' = FALSE
    /\ lastOp' = [name |-> "resize", w |-> v[1], h |-> v[2], delta |-> 0]

\* The window becomes v[1] x v[2] and resize() runs
Resize(v, s) ==
    /\ phase = "live"
    /\ nOps < MaxOps
    /\ window' = v
    /\ ResizeBody(v, s)
    /\ nOps' = nOps + 1
    /\ UNCHANGED <<impl, phase, enabled, ctxLog, stored, month, listener,
                   attached, timer, ctxOk, toggleVal>>
    /\ UNCHANGED otherVars

\* A 'resize' event of the window, which becomes v[1] x v[2]: the debounced
\* handler, while registered, drops the pending call and schedules a new one
WindowResize(v) ==
    /\ phase # "none"
    /\ nOps < MaxOps
    /\ window' = v
    /\ timer' = IF listener THEN "pending" ELSE timer
    /\ prevFlakes' = snowflakes
    /\ prevLife' = NoLife
    /\ thrown' = FALSE
    /\ lastOp' = [name |-> "event", w |-> v[1], h |-> v[2], delta |-> 0]
    /\ nOps' = nOps + 1
    /\ UNCHANGED <<impl, phase, canvasWidth, canvasHeight, snowflakes, enabled,
                   nextId, ctxLog, stored, month, listener, attached, ctxOk,
                   painted, toggleVal>>
    /\ UNCHANGED otherVars

\* The timer of the debounced handler expires: resize() runs
TimerFire(s) ==
    /\ timer = "pending"
    /\ timer' = "none"
    /\ ResizeBody(window, s)
    /\ UNCHANGED <<impl, phase, enabled, ctxLog, nOps, stored, month, window,
                   listener, attached, ctxOk, toggleVal>>
    /\ UNCHANGED otherVars

\* update(delta); the stand-in's update does nothing
Update(d, s) ==
    /\ phase \in {"live", "standin"}
    /\ nOps < MaxOps
    /\ snowflakes' = IF phase = "standin" THEN snowflakes
                     ELSE update(impl, snowflakes, enabled, d, s)
    /\ prevFlakes' = snowflakes
    /\ prevLife' = NoLife
    /\ thrown' = FALSE
    /\ lastOp' = [name |-> "update", w |-> 0, h |-> 0, delta |-> d]
    /\ nOps' = nOps + 1
    /\ UNCHANGED <<impl, phase, canvasWidth, canvasHeight, enabled, nextId,
                   ctxLog, stored, month, window, listener, attached, timer,
                   ctxOk, painted, toggleVal>>
    /\ UNCHANGED otherVars

\* draw(); the stand-in's draw does nothing, and ctx.clearRect raises when
\* ctx is null
Draw ==
    /\ phase \in {"live", "standin"}
    /\ nOps < MaxOps
    /\ thrown' = (phase = "live" /\ enabled /\ ~ctxOk)
    /\ ctxLog' = IF phase = "standin" \/ ~enabled \/ ~ctxOk THEN << >>
                 ELSE draw(snowflakes, canvasWidth, canvasHeight)
    /\ painted' = Paint(painted, ctxLog')
    /\ prevFlakes' = snowflakes
    /\ prevLife' = NoLife
    /\ lastOp' = [name |-> "draw", w |-> 0, h |-> 0, delta |-> 0]
    /\ nOps' = nOps + 1
    /\ UNCHANGED <<impl, phase, canvasWidth, canvasHeight, snowflakes, enabled,
                   nextId, stored, month, window, listener, attached, timer,
                   ctxOk, toggleVal>>
    /\ UNCHANGED otherVars

\* Faulty variant of ToggleCalls: the surface is not cleared
ToggleCalls_noClear(en, ok, w, h) ==
    << >>

\* The calls toggle() issues on ctx, en being the flipped flag
ToggleCalls(en, ok, w, h) ==
    IF ~en /\ ok THEN << <<"clearRect", 0, 0, w, h>> >> ELSE << >>

\* Faulty variant of ToggleStored: only switching on is remembered
ToggleStored_onlyOn(st, en) ==
    IF en THEN String(en) ELSE st

\* localStorage's 'snowEnabled' after toggle(), en being the flipped flag
ToggleStored(st, en) ==
    String(en)

\* toggle(); the stand-in's toggle does nothing
Toggle ==
    /\ phase \in {"live", "standin"}
    /\ nOps < MaxOps
    /\ IF phase = "standin"
       THEN /\ UNCHANGED <<enabled, stored, toggleVal, ctxLog, painted>>
            /\ thrown' = FALSE
       ELSE /\ enabled' = ~enabled
            /\ stored' = ToggleStored(stored, enabled')
            /\ toggleVal' = String(enabled')
            /\ thrown' = (~enabled' /\ ~ctxOk)
            /\ ctxLog' = ToggleCalls(enabled', ctxOk, canvasWidth, canvasHeight)
            /\ painted' = Paint(painted, ctxLog')
    /\ prevFlakes' = snowflakes
    /\ prevLife' = Life
    /\ lastOp' = [name |-> "toggle", w |-> 0, h |-> 0, delta |-> 0]
    /\ nOps' = nOps + 1
    /\ UNCHANGED <<impl, phase, canvasWidth, canvasHeight, snowflakes, nextId,
                   month, window, listener, attached, timer, ctxOk>>
    /\ UNCHANGED otherVars

\* Faulty variant of CleanupThrows: removeChild without the parentNode guard
CleanupThrows_unguarded(at) ==
    ~at

\* Whether cleanup() raises, at telling whether the canvas has a parentNode
CleanupThrows(at) ==
    FALSE

\* The debounce timer after cleanup(): utils.js cancels the pending call,
\* snow.js leaves it
CleanupTimer(im, t) ==
    IF im = "utils" THEN "none" ELSE t

\* cleanup(); the stand-in's cleanup does nothing
Cleanup ==
    /\ phase \in {"live", "cleaned", "standin"}
    /\ nOps < MaxOps
    /\ IF phase = "standin"
       THEN /\ UNCHANGED <<phase, timer, listener, attached>>
            /\ thrown' = FALSE
       ELSE /\ phase' = "cleaned"
            /\ timer' = CleanupTimer(impl, timer)
            /\ listener' = FALSE
            /\ attached' = FALSE
            /\ thrown' = CleanupThrows(attached)
    /\ prevFlakes' = snowflakes
    /\ prevLife' = Life
    /\ lastOp' = [name |-> "cleanup", w |-> 0, h |-> 0, delta |-> 0]
    /\ nOps' = nOps + 1
    /\ UNCHANGED <<impl, canvasWidth, canvasHeight, snowflakes, enabled, nextId,
                   ctxLog, stored, month, window, ctxOk, painted, toggleVal>>
    /\ UNCHANGED otherVars

\* The page is loaded again, in month m: every object of the old page is
\* gone, localStorage stays
Reload(m) ==
    /\ phase # "none"
    /\ nOps < MaxOps
    /\ phase' = "none"
    /\ month' = m
    /\ canvasWidth' = 0
    /\ canvasHeight' = 0
    /\ snowflakes' = << >>
    /\ enabled' = FALSE
    /\ nextId' = 0
    /\ ctxLog' = << >>
    /\ prevFlakes' = << >>
    /\ prevLife' = NoLife
    /\ window' = <<0, 0>>
    /\ listener' = FALSE
    /\ attached' = FALSE
    /\ timer' = "none"
    /\ ctxOk' = TRUE
    /\ thrown' = FALSE
    /\ painted' = {}
    /\ lastOp' = [name |-> "reload", w |-> 0, h |-> 0, delta |-> 0]
    /\ nOps' = nOps + 1
    /\ UNCHANGED <<impl, stored, toggleVal>>
    /\ UNCHANGED otherVars

Next ==
    \/ \E v \in Viewports, s \in RandomStreams : Construct(v, s, "ok")
    \/ \E v \in Viewports, s \in RandomStreams : Resize(v, s)
    \/ \E d \in Deltas, s \in RandomStreams : Update(d, s)
    \/ Draw
    \/ Toggle

Spec == Init /\ [][Next]_vars

\* The life of the overlay on a page: construction (which may fail), the
\* key and frame handlers, window events with the debounced resize, cleanup
\* and reloads
InitLife == InitWith(StoredValues, Months) /\ FramesIdle /\ LoaderIdle /\ DebounceIdle /\ ControlsIdle

NextLife ==
    \/ \E v \in LifeViewports, o \in Outcomes : Construct(v, LifeStream, o)
    \/ \E v \in LifeViewports : WindowResize(v)
    \/ TimerFire(LifeStream)
    \/ Update(1, LifeStream)
    \/ Draw
    \/ Toggle
    \/ Cleanup
    \/ \E m \in Months : Reload(m)

SpecLife == InitLife /\ [][NextLife]_vars

----------------------------------------------------------------------------
(* The animation loop of the host and the visibilitychange listener *)

\* Hosts: main.js and the older main module kept in src/unnamed/part_001
Hosts == { "main", "part_001" }

\* The window of the animation-loop specification
FrameViewport == <<109, 400>>

RECURSIVE SnowFrames(_, _, _, _, _)
\* this.snowflakes after k runs of animate(), each calling
\* snowEffect.update(delta) with delta * 60 = d
SnowFrames(im, flakes, en, d, k) ==
    IF k = 0 THEN flakes
    ELSE SnowFrames(im, update(im, flakes, en, d, LifeStream), en, d, k - 1)

\* The calls of snowEffect.draw() at the end of animate()
SnowDraw(flakes, en) ==
    IF en THEN draw(flakes, canvasWidth, canvasHeight) ELSE << >>

\* The snow part of k runs of animate(): snowEffect.update(delta) and
\* snowEffect.draw() each time
AnimateSnow(d, k) ==
    /\ snowflakes' = SnowFrames(impl, snowflakes, enabled, d, k)
    /\ ctxLog' = IF k = 0 THEN ctxLog ELSE SnowDraw(snowflakes', enabled)
    /\ painted' = Paint(painted, ctxLog')
    /\ prevFlakes' = snowflakes
    /\ prevLife' = NoLife
    /\ thrown' = FALSE
    /\ UNCHANGED <<impl, phase, canvasWidth, canvasHeight, enabled, nextId,
                   stored, month, window, listener, attached, timer, ctxOk,
                   toggleVal>>

\* The state once initializeApp() has returned: the SnowEffect is
\* constructed and animate() has run once, leaving one callback requested.
\* The page may have been opened in a background tab.
InitFrames ==
    /\ impl \in {"snow", "utils"}
    /\ host \in Hosts
    /\ hidden \in BOOLEAN
    /\ stored = NoStored
    /\ month \in {1, 7}
    /\ phase = "live"
    /\ window = FrameViewport
    /\ canvasWidth = FrameViewport[1]
    /\ canvasHeight = FrameViewport[2]
    /\ enabled = InitialEnabled(stored, month)
    /\ snowflakes =
          update(impl,
                 constructFlakes(impl, FrameViewport[1], FrameViewport[2], LifeStream),
                 enabled, 0, LifeStream)
    /\ nextId = Len(snowflakes)
    /\ ctxLog = IF enabled
                THEN draw(snowflakes, FrameViewport[1], FrameViewport[2])
                ELSE << >>
    /\ painted = Paint({}, ctxLog)
    /\ lastOp = [name |-> "frame", w |-> 0, h |-> 0, delta |-> 0]
    /\ prevFlakes = snowflakes
    /\ nOps = 0
    /\ listener = TRUE
    /\ attached = TRUE
    /\ timer = "none"
    /\ ctxOk = TRUE
    /\ thrown = FALSE
    /\ toggleVal = "none"
    /\ prevLife = NoLife
    /\ animationId = 1
    /\ pendingFrames = {1}
    /\ nextRaf = 2
    /\ frameRuns = 0
    /\ LoaderIdle
    /\ DebounceIdle
    /\ ControlsIdle

\* Faulty variant of ResumeStarts: the loop is restarted on every
\* 'visible' notification
ResumeStarts_always(h, id) ==
    TRUE

\* Whether the listener calls animate() when the document is visible:
\* main.js tests animationId, part_001 does not
ResumeStarts(h, id) ==
    IF h = "main" THEN id = 0 ELSE TRUE

\* animationId after the listener ran for a hidden document: main.js
\* resets it, part_001 keeps the cancelled id
PausedId(h, id) ==
    IF h = "main" THEN 0 ELSE id

\* A visibilitychange event, document.hidden being hid when the listener
\* runs; d is delta * 60 of the animate() call the listener may make
VisibilityChange(hid, d) ==
    /\ nOps < MaxOps
    /\ hidden' = hid
    /\ IF hid
       THEN /\ pendingFrames' = pendingFrames \ {animationId}
            /\ animationId' = PausedId(host, animationId)
            /\ nextRaf' = nextRaf
            /\ AnimateSnow(d, 0)
       ELSE IF ResumeStarts(host, animationId)
            THEN /\ pendingFrames' = pendingFrames \cup {nextRaf}
                 /\ animationId' = nextRaf
                 /\ nextRaf' = nextRaf + 1
                 /\ AnimateSnow(d, 1)
            ELSE /\ UNCHANGED <<pendingFrames, animationId, nextRaf>>
                 /\ AnimateSnow(d, 0)
    /\ lastOp' = [name |-> "visibility", w |-> 0, h |-> 0, delta |-> d]
    /\ nOps' = nOps + 1
    /\ UNCHANGED <<host, frameRuns>>
    /\ UNCHANGED <<loaderVars, debounceVars, controlVars>>

\* The browser displays a frame: every callback pending runs animate()
\* once, and each run requests one new callback.  No frame is displayed
\* while the document is hidden.
DisplayFrame ==
    /\ nOps < MaxOps
    /\ ~hidden
    /\ pendingFrames # {}
    /\ LET k == Cardinality(pendingFrames)
       IN  /\ frameRuns' = k
           /\ pendingFrames' = nextRaf..(nextRaf + k - 1)
           /\ animationId' = nextRaf + k - 1
           /\ nextRaf' = nextRaf + k
           /\ AnimateSnow(1, k)
    /\ lastOp' = [name |-> "frame", w |-> 0, h |-> 0, delta |-> 1]
    /\ nOps' = nOps + 1
    /\ UNCHANGED <<host, hidden>>
    /\ UNCHANGED <<loaderVars, debounceVars, controlVars>>

\* delta * 60 of the animate() call of the listener: main.js discards the
\* time spent hidden, part_001 does not
ResumeDelta(h) == IF h = "main" THEN 0 ELSE 600

NextFrames ==
    \/ \E hid \in BOOLEAN : VisibilityChange(hid, ResumeDelta(host))
    \/ DisplayFrame

SpecFrames == InitFrames /\ [][NextFrames]_vars

\* C17: rendering pauses while the tab is inactive: whatever
\* visibilitychange events arrive, at most one animation-frame callback is
\* pending, none is pending while the document is hidden, and animate()
\* (hence snow update() and draw()) runs at most once per displayed frame.
C17_OneFramePendingNoneHidden ==
    /\ Cardinality(pendingFrames) <= 1
    /\ hidden => pendingFrames = {}
    /\ frameRuns <= 1

----------------------------------------------------------------------------
(* Model loading with retry (loader.js) *)

\* CONFIG.modelRetryAttempts
modelRetryAttempts == 3

\* xhr.loaded and xhr.total of the progress events
ProgressInputs == { <<0, 3>>, <<1, 3>>, <<2, 3>>, <<3, 3>> }

\* The page before any load, with or without its #loading and
\* #progress-fill elements
InitLoader ==
    /\ InitWith({NoStored}, {1})
    /\ impl = "utils"
    /\ FramesIdle
    /\ DebounceIdle
    /\ ControlsIdle
    /\ ldEl \in BOOLEAN
    /\ ldFill \in BOOLEAN
    /\ ps1Style \in BOOLEAN
    /\ ldState = "idle"
    /\ ldAttempt = 0
    /\ ldStarted = 0
    /\ ldSuccess = 0
    /\ ldUi = "page"
    /\ ldNow = 0
    /\ ldFlat = "none"
    /\ ldFinal = 0

\* loadModel(scene, onSuccess, n) up to and including loader.load(...)
StartAttempt(n) ==
    /\ ldAttempt' = n
    /\ ldStarted' = ldStarted + 1
    /\ ldState' = "loading"
    /\ IF ldEl /\ n > 1
       THEN /\ ldUi' = "attempt"
            /\ ldFill' = TRUE
            /\ ldNow' = 0
       ELSE UNCHANGED <<ldUi, ldFill, ldNow>>
    /\ UNCHANGED <<ldEl, ps1Style, ldSuccess, ldFlat, ldFinal>>

\* initializeApp() calls loadModel(scene, onSuccess)
LoadModel ==
    /\ ldState = "idle"
    /\ StartAttempt(1)
    /\ UNCHANGED <<snowVars, frameVars, debounceVars, controlVars>>

\* The progress callback, xhr.loaded / xhr.total being p[1] / p[2]
LoadProgress(p, lengthComputable) ==
    /\ ldState = "loading"
    /\ ldNow' = IF lengthComputable /\ ldFill
                THEN Round(100 * p[1], p[2]) ELSE ldNow
    /\ UNCHANGED <<ldEl, ldFill, ps1Style, ldState, ldAttempt, ldStarted,
                   ldSuccess, ldUi, ldFlat, ldFinal>>
    /\ UNCHANGED <<snowVars, frameVars, debounceVars, controlVars>>

\* The success callback of loader.load
LoadSuccess ==
    /\ ldState = "loading"
    /\ ldState' = "loaded"
    /\ ldFlat' = IF ps1Style THEN "flat" ELSE "smooth"
    /\ ldUi' = IF ldEl THEN "hidden" ELSE ldUi
    /\ ldSuccess' = ldSuccess + 1
    /\ ldFinal' = ldStarted
    /\ UNCHANGED <<ldEl, ldFill, ps1Style, ldAttempt, ldStarted, ldNow>>
    /\ UNCHANGED <<snowVars, frameVars, debounceVars, controlVars>>

\* Faulty variant of RetryAllowed: one attempt too many
RetryAllowed_inclusive(n) ==
    n <= modelRetryAttempts

\* attemptNumber < CONFIG.modelRetryAttempts
RetryAllowed(n) ==
    n < modelRetryAttempts

\* The error callback of loader.load: a retry is scheduled, or
\* showLoadingError runs (which returns at once without a #loading element)
LoadError ==
    /\ ldState = "loading"
    /\ IF RetryAllowed(ldAttempt)
       THEN /\ ldState' = "retryWait"
            /\ ldUi' = IF ldEl THEN "retrying" ELSE ldUi
            /\ ldFinal' = ldFinal
       ELSE /\ ldState' = "failed"
            /\ ldUi' = IF ldEl THEN "error" ELSE ldUi
            /\ ldFinal' = ldStarted
    /\ ldFill' = IF ldEl THEN FALSE ELSE ldFill
    /\ UNCHANGED <<ldEl, ps1Style, ldAttempt, ldStarted, ldSuccess, ldNow,
                   ldFlat>>
    /\ UNCHANGED <<snowVars, frameVars, debounceVars, controlVars>>

\* The retry timeout expires: loadModel(scene, onSuccess, attemptNumber + 1)
RetryTimer ==
    /\ ldState = "retryWait"
    /\ StartAttempt(ldAttempt + 1)
    /\ UNCHANGED <<snowVars, frameVars, debounceVars, controlVars>>

NextLoader ==
    \/ LoadModel
    \/ \E p \in ProgressInputs, c \in BOOLEAN : LoadProgress(p, c)
    \/ LoadSuccess
    \/ LoadError
    \/ RetryTimer

SpecLoader == InitLoader /\ [][NextLoader]_vars

\* What C18 says apart from the error UI: at most modelRetryAttempts
\* attempts are started, a retry is pending only after an error on an
\* attempt below the maximum, nothing is started after the final error or
\* after a success, and onSuccess is called exactly once on success
LoaderAttemptsBounded ==
    /\ ldStarted <= modelRetryAttempts
    /\ ldStarted = ldAttempt
    /\ ldState = "retryWait" => ldAttempt < modelRetryAttempts
    /\ ldState = "failed" =>
          ldAttempt = modelRetryAttempts /\ ldStarted = ldFinal /\ ldSuccess = 0
    /\ ldState = "loaded" => ldStarted = ldFinal /\ ldSuccess = 1
    /\ ldState \notin {"loaded"} => ldSuccess = 0

\* C18 as stated: the attempts are bounded as above and after the error on
\* the last attempt the error UI is shown.
C18_RetryThenErrorUi ==
    /\ LoaderAttemptsBounded
    /\ ldState = "failed" => ldUi = "error"

\* C18 amended: the attempts are bounded as above and after the error on
\* the last attempt the error UI is shown when the page has a #loading
\* element (without one showLoadingError shows nothing).
C18_RetryThenErrorUiIfElement ==
    /\ LoaderAttemptsBounded
    /\ ldState = "failed" => (ldEl => ldUi = "error")
    /\ (ldState = "failed" /\ ~ldEl) => ldUi = "page"

\* The third attempt failed on a page with a #loading element
C18_Witness ==
    /\ ldState = "failed"
    /\ ldStarted = modelRetryAttempts
    /\ ldEl
    /\ ldUi = "error"

----------------------------------------------------------------------------
(* debounce(func, wait) (utils.js) *)

\* CONFIG.resize.debounceMs, the wait SnowEffect passes
debounceMs == 100

\* Values of wait, in ms
Waits == { debounceMs, 150 }

\* Steps of the clock, in ms
TimeSteps == { 50, 100 }

\* Arguments of the calls of the debounced function
CallArgs == { "a", "b" }

\* The clock stops here
MaxTime == (MaxCalls + 2) * debounceMs

\* debounce(func, wait) has just returned
InitDebounce ==
    /\ InitWith({NoStored}, {1})
    /\ impl = "utils"
    /\ FramesIdle
    /\ LoaderIdle
    /\ ControlsIdle
    /\ dbWait \in Waits
    /\ dbNow = 0
    /\ dbTimeout = NoTimeout
    /\ dbLog = << >>

\* A timeout is due: it runs before any later event and before the clock
\* moves on
TimeoutDue == dbTimeout # NoTimeout /\ dbTimeout[1] = dbNow

\* Faulty variant of NextTimeout: a pending timeout is kept
NextTimeout_keepFirst(old, now, w, arg) ==
    IF old # NoTimeout THEN old ELSE <<now + w, arg>>

\* timeout after debounced(arg) is called at time now: clearTimeout drops
\* the old one, setTimeout(..., wait) sets a new one holding arg
NextTimeout(old, now, w, arg) ==
    <<now + w, arg>>

\* debounced(arg)
DebouncedCall(arg) ==
    /\ ~TimeoutDue
    /\ Cardinality({ n \in 1..Len(dbLog) : dbLog[n].kind # "exec" }) < MaxCalls
    /\ dbTimeout' = NextTimeout(dbTimeout, dbNow, dbWait, arg)
    /\ dbLog' = Append(dbLog, [kind |-> "call", t |-> dbNow, arg |-> arg])
    /\ UNCHANGED <<dbWait, dbNow>>
    /\ UNCHANGED <<snowVars, frameVars, loaderVars, controlVars>>

\* debounced.cancel()
DebouncedCancel ==
    /\ ~TimeoutDue
    /\ Cardinality({ n \in 1..Len(dbLog) : dbLog[n].kind # "exec" }) < MaxCalls
    /\ dbTimeout' = NoTimeout
    /\ dbLog' = Append(dbLog, [kind |-> "cancel", t |-> dbNow, arg |-> "-"])
    /\ UNCHANGED <<dbWait, dbNow>>
    /\ UNCHANGED <<snowVars, frameVars, loaderVars, controlVars>>

\* The timeout callback: func.apply(this, args)
TimeoutFire ==
    /\ TimeoutDue
    /\ dbTimeout' = NoTimeout
    /\ dbLog' = Append(dbLog, [kind |-> "exec", t |-> dbNow, arg |-> dbTimeout[2]])
    /\ UNCHANGED <<dbWait, dbNow>>
    /\ UNCHANGED <<snowVars, frameVars, loaderVars, controlVars>>

\* dt ms pass, no timeout being overdue
Tick(dt) ==
    /\ dbNow + dt <= MaxTime
    /\ dbTimeout # NoTimeout => dbNow + dt <= dbTimeout[1]
    /\ dbNow' = dbNow + dt
    /\ UNCHANGED <<dbWait, dbTimeout, dbLog>>
    /\ UNCHANGED <<snowVars, frameVars, loaderVars, controlVars>>

NextDebounce ==
    \/ \E arg \in CallArgs : DebouncedCall(arg)
    \/ DebouncedCancel
    \/ TimeoutFire
    \/ \E dt \in TimeSteps : Tick(dt)

SpecDebounce == InitDebounce /\ [][NextDebounce]_vars

\* Positions of dbLog holding events of the given kinds
LogOf(kinds) == { n \in 1..Len(dbLog) : dbLog[n].kind \in kinds }

\* The first call or cancel() after position k, 0 if there is none
NextCut(k) ==
    LET Later == { j \in LogOf({"call", "cancel"}) : j > k }
    IN  IF Later = {} THEN 0 ELSE CHOOSE j \in Later : \A i \in Later : j <= i

\* The executions of func between call k and the next call or cancel()
ExecsAfter(k) ==
    { e \in LogOf({"exec"}) : e > k /\ (NextCut(k) = 0 \/ e < NextCut(k)) }

\* Call k ends a burst whose quiet period has passed: nothing was called
\* for wait ms after it
BurstEnded(k) ==
    IF NextCut(k) = 0 THEN dbNow > dbLog[k].t + dbWait
    ELSE dbLog[NextCut(k)].t >= dbLog[k].t + dbWait

\* C19: debounce coalesces a burst: func runs exactly once per burst, wait
\* after the last call of the burst and with that call's arguments; it never
\* runs before a quiet period of wait has passed; cancel() discards a
\* pending execution.
C19_DebounceCoalesces ==
    /\ \A e \in LogOf({"exec"}) :
          \E k \in LogOf({"call"}) :
              /\ k < e
              /\ \A j \in LogOf({"call", "cancel"}) : ~(k < j /\ j < e)
              /\ dbLog[e].t = dbLog[k].t + dbWait
              /\ dbLog[e].arg = dbLog[k].arg
    /\ \A k \in LogOf({"call"}) :
          /\ Cardinality(ExecsAfter(k)) <= 1
          /\ BurstEnded(k) => Cardinality(ExecsAfter(k)) = 1
    /\ \A c \in LogOf({"cancel"}) : ExecsAfter(c) = {}

\* A burst of two calls with different arguments, less than wait apart, was
\* executed
C19_Witness ==
    \E k \in LogOf({"call"}), e \in LogOf({"exec"}) :
        /\ e = k + 2
        /\ dbLog[k + 1].kind = "call"
        /\ dbLog[k + 1].arg # dbLog[k].arg
        /\ dbLog[k + 1].t > dbLog[k].t
        /\ dbLog[e].arg = dbLog[k + 1].arg

----------------------------------------------------------------------------
(* Drag-to-rotate controls (controls.js) *)

\* Angles and angular velocities are held in units of 1/R rad
R == 1000000

\* Math.PI / 2
HalfPi == 1570796

\* CONFIG.mouse.sensitivity, in 1/R rad per pixel
sensitivity == 8000

\* CONFIG.mouse.minDragDistance
minDragDistance == 5

\* CONFIG.rotation.inertia and 1 - CONFIG.rotation.returnSpeed, in hundredths
inertia == 95

returnKeep == 98

\* delta * CONFIG.rotation.speed for one 60fps frame, in 1/R rad
autoStep == 8333

\* The threshold below which a velocity is zeroed: 0.00001 rad
velocityFloor == 10

\* clientX, clientY of the events: the usual press point, a point at
\* Manhattan distance 5 from it, and points further away
Points == { <<100, 100>>, <<103, 102>>, <<100, 110>>, <<100, 400>> }

\* event.button: left, right
Buttons == { 0, 2 }

\* event.touches.length
TouchCounts == { 1, 2 }

Abs(a) == IF a < 0 THEN -a ELSE a

\* a * n / 100, to 1/R rad
Scale(a, n) == IF a >= 0 THEN (a * n) \div 100 ELSE -((-a * n) \div 100)

\* Math.max(-Math.PI / 2, Math.min(Math.PI / 2, a))
Clamp(a) == Max(-HalfPi, Min(HalfPi, a))

\* Faulty variant of ExceedsMinDrag: the threshold itself counts as a drag
ExceedsMinDrag_inclusive(ms, x, y) ==
    Abs(x - ms.startX) + Abs(y - ms.startY) >= minDragDistance

\* totalDrag > CONFIG.mouse.minDragDistance
ExceedsMinDrag(ms, x, y) ==
    Abs(x - ms.startX) + Abs(y - ms.startY) > minDragDistance

\* The body of onMouseDown and of onTouchStart once their test passed
StartDrag(ms, x, y) ==
    [ms EXCEPT !.isDragging = TRUE, !.startX = x, !.startY = y,
               !.previousX = x, !.previousY = y,
               !.velocityX = 0, !.velocityY = 0]

\* The body of onMouseMove and of onTouchMove once their test passed
MoveDrag(ms, x, y) ==
    LET vx == (x - ms.previousX) * sensitivity
        vy == (y - ms.previousY) * sensitivity
        turned == IF ExceedsMinDrag(ms, x, y)
                  THEN [ms EXCEPT !.velocityX = vx, !.velocityY = vy,
                                  !.rotationY = ms.rotationY + vx,
                                  !.rotationX = Clamp(ms.rotationX + vy)]
                  ELSE ms
    IN  [turned EXCEPT !.previousX = x, !.previousY = y]

\* The inertia branch of updateRotation
Inertia(ms) ==
    LET vx == Scale(ms.velocityX, inertia)
        vy == Scale(ms.velocityY, inertia)
    IN  [ms EXCEPT !.velocityX = IF Abs(vx) < velocityFloor THEN 0 ELSE vx,
                   !.velocityY = IF Abs(vy) < velocityFloor THEN 0 ELSE vy,
                   !.rotationY = Scale(ms.rotationY + vx, returnKeep),
                   !.rotationX = Scale(ms.rotationX + vy, returnKeep)]

\* updateRotation(model, mouseState, delta) for a loaded model: mouseState
\* afterwards
updateRotation(ms) ==
    LET m == IF ~ms.isDragging THEN Inertia(ms) ELSE ms
    IN  [m EXCEPT !.defaultRotationY = m.defaultRotationY + autoStep]

\* Whether a drag is in progress after the event, by the events alone: it
\* starts with a left-button press or a single-touch start and ends with a
\* left-button release or a touch end
DragAfter(kind, x, y, n) ==
    IF (kind = "mousedown" /\ n = 0) \/ (kind = "touchstart" /\ n = 1)
    THEN [on |-> TRUE, x |-> x, y |-> y]
    ELSE IF (kind = "mouseup" /\ n = 0) \/ kind = "touchend"
    THEN [ctlDrag EXCEPT !.on = FALSE]
    ELSE ctlDrag

\* What every handler of the controls leaves behind besides mouseState
Handled(kind, x, y, n) ==
    /\ nCtl < MaxCtl
    /\ nCtl' = nCtl + 1
    /\ ctlLast' = [kind |-> kind, x |-> x, y |-> y, n |-> n,
                   before |-> mouseState, drag |-> ctlDrag]
    /\ ctlDrag' = DragAfter(kind, x, y, n)
    /\ UNCHANGED <<snowVars, frameVars, loaderVars, debounceVars>>

\* mousedown at p with event.button = b
onMouseDown(p, b) ==
    /\ mouseState' = IF b = 0 THEN StartDrag(mouseState, p[1], p[2]) ELSE mouseState
    /\ UNCHANGED modelRotation
    /\ Handled("mousedown", p[1], p[2], b)

\* mousemove at p
onMouseMove(p) ==
    /\ mouseState' = IF mouseState.isDragging
                     THEN MoveDrag(mouseState, p[1], p[2]) ELSE mouseState
    /\ UNCHANGED modelRotation
    /\ Handled("mousemove", p[1], p[2], 0)

\* mouseup with event.button = b
onMouseUp(b) ==
    /\ mouseState' = IF b = 0 THEN [mouseState EXCEPT !.isDragging = FALSE]
                     ELSE mouseState
    /\ UNCHANGED modelRotation
    /\ Handled("mouseup", 0, 0, b)

\* touchstart, touches[0] at p, with n touches
onTouchStart(p, n) ==
    /\ mouseState' = IF n = 1 THEN StartDrag(mouseState, p[1], p[2]) ELSE mouseState
    /\ UNCHANGED modelRotation
    /\ Handled("touchstart", p[1], p[2], n)

\* touchmove, touches[0] at p, with n touches
onTouchMove(p, n) ==
    /\ mouseState' = IF mouseState.isDragging /\ n = 1
                     THEN MoveDrag(mouseState, p[1], p[2]) ELSE mouseState
    /\ UNCHANGED modelRotation
    /\ Handled("touchmove", p[1], p[2], n)

\* touchend
onTouchEnd ==
    /\ mouseState' = IF mouseState.isDragging
                     THEN [mouseState EXCEPT !.isDragging = FALSE]
                     ELSE mouseState
    /\ UNCHANGED modelRotation
    /\ Handled("touchend", 0, 0, 0)

\* The call of updateRotation in animate(); without a model it returns at
\* once
UpdateRotation(hasModel) ==
    /\ mouseState' = IF hasModel THEN updateRotation(mouseState) ELSE mouseState
    /\ modelRotation' =
          IF hasModel
          THEN [x |-> mouseState'.rotationX,
                y |-> mouseState'.defaultRotationY + mouseState'.rotationY]
          ELSE modelRotation
    /\ Handled("frame", 0, 0, 0)

\* initializeControls() has just returned
InitControls ==
    /\ InitWith({NoStored}, {1})
    /\ impl = "utils"
    /\ FramesIdle
    /\ LoaderIdle
    /\ DebounceIdle
    /\ ControlsIdle

NextControls ==
    \/ \E p \in Points, b \in Buttons : onMouseDown(p, b)
    \/ \E p \in Points : onMouseMove(p)
    \/ \E b \in Buttons : onMouseUp(b)
    \/ \E p \in Points, n \in TouchCounts : onTouchStart(p, n)
    \/ \E p \in Points, n \in TouchCounts : onTouchMove(p, n)
    \/ onTouchEnd
    \/ \E hasModel \in BOOLEAN : UpdateRotation(hasModel)

SpecControls == InitControls /\ [][NextControls]_vars

\* C29: the user-controlled X rotation is clamped: in every state reachable
\* by press, move and release events and per-frame updateRotation calls,
\* mouseState.rotationX, and with it model.rotation.x, lies in
\* [-PI/2, PI/2].
C29_RotationXClamped ==
    /\ mouseState.rotationX >= -HalfPi
    /\ mouseState.rotationX <= HalfPi
    /\ modelRotation.x >= -HalfPi
    /\ modelRotation.x <= HalfPi

\* The rotation and velocity fields of mouseState
Turn(ms) == <<ms.rotationX, ms.rotationY, ms.velocityX, ms.velocityY>>

\* The latest event was a mouse or touch move
Moved == ctlLast.kind \in {"mousemove", "touchmove"}

\* C30: a mouse or touch move changes rotationX, rotationY, velocityX or
\* velocityY only if a drag is in progress and the Manhattan distance from
\* the drag start exceeds CONFIG.mouse.minDragDistance; a move with no drag
\* in progress leaves mouseState unchanged; a press with a non-left button
\* does not start a drag.
C30_MoveTurnsOnlyWhileDragging ==
    /\ (Moved /\ Turn(mouseState) # Turn(ctlLast.before)) =>
          /\ ctlLast.drag.on
          /\ Abs(ctlLast.x - ctlLast.drag.x) + Abs(ctlLast.y - ctlLast.drag.y) > 5
    /\ (Moved /\ ~ctlLast.drag.on) => mouseState = ctlLast.before
    /\ (ctlLast.kind = "mousedown" /\ ctlLast.n # 0) =>
          /\ mouseState = ctlLast.before
          /\ ctlDrag = ctlLast.drag

\* A move during a drag, more than 5 pixels from its start, turned the model
C30_Witness ==
    /\ Moved
    /\ ctlLast.drag.on
    /\ Turn(mouseState) # Turn(ctlLast.before)
    /\ mouseState.rotationX # ctlLast.before.rotationX

----------------------------------------------------------------------------
(* Population claims *)

\* max(floor(W*H / flakesPerArea), MIN_COUNT), the target the specification states
PopulationTarget(w, h) == Max(Floor(w * h, flakesPerArea), MIN_SNOWFLAKES)

LayerCount(flakes, layer) == Len(LayerFlakes(flakes, layer))

\* C1: after any call to resize(), for any viewport W x H, the number of live
\* snowflakes equals max(floor(W*H / flakesPerArea), MIN_COUNT) exactly.
C1_ResizeReachesTarget ==
    lastOp.name = "resize"
        => Len(snowflakes) = PopulationTarget(lastOp.w, lastOp.h)

\* The target count the instantiated SnowEffect computes for a viewport
ComputedTarget(w, h) ==
    IF impl = "utils" THEN TargetTotal_utils(w, h) ELSE TargetTotal_snow(w, h)

\* C2: immediately after construction the collection has been populated by
\* exactly one application of the population rule: its length equals the
\* target count computed for the initial viewport (no particle is created
\* twice at startup).
C2_ConstructPopulatesOnce ==
    lastOp.name = "construct"
        => Len(snowflakes) = ComputedTarget(lastOp.w, lastOp.h)

\* C3: when resize() shrinks the population to a target T below the previous
\* count, every layer L holds exactly floor(T * ratio_L) particles afterwards.
C3_ShrinkLayerQuota ==
    (lastOp.name = "resize"
        /\ PopulationTarget(lastOp.w, lastOp.h) < Len(prevFlakes))
        => \A layer \in Layers :
              LayerCount(snowflakes, layer)
                  = LayerTarget(PopulationTarget(lastOp.w, lastOp.h), layer)

\* C4: in every state after construction the number of live snowflakes is at
\* least MIN_COUNT.
C4_AtLeastMinCount ==
    phase = "live" => Len(snowflakes) >= MIN_SNOWFLAKES

\* resize() took the shrink branch of _adjustFlakeCount
Shrank ==
    /\ lastOp.name = "resize"
    /\ ComputedTarget(lastOp.w, lastOp.h) < Len(prevFlakes)

\* The flakes of a layer when the shrink branch starts, that is after the
\* forEach of resize() refreshed their cached bounds
LayerBefore(layer) ==
    LayerFlakes(UpdateBounds(prevFlakes, lastOp.w, lastOp.h), layer)

\* C20: on shrink the survivors of each layer are the first particles of
\* that layer in the previous order (a prefix of the layer's subsequence),
\* each one an already-live particle with unchanged fields; no particle is
\* created.
C20_ShrinkKeepsLayerPrefix ==
    Shrank =>
        /\ Len(snowflakes) < Len(prevFlakes)
        /\ \A layer \in Layers :
              LET kept == LayerFlakes(snowflakes, layer)
              IN  /\ Len(kept) <= Len(LayerBefore(layer))
                  /\ kept = SubSeq(LayerBefore(layer), 1, Len(kept))

\* A shrink that cut one layer to a proper, non-empty prefix while another
\* layer also had survivors
C20_Witness ==
    /\ Shrank
    /\ \E layer \in Layers :
          /\ Len(LayerFlakes(snowflakes, layer)) > 0
          /\ Len(LayerFlakes(snowflakes, layer)) < Len(LayerBefore(layer))
          /\ \E other \in Layers \ {layer} :
                Len(LayerFlakes(snowflakes, other)) > 0

----------------------------------------------------------------------------
(* Simulation claims *)

\* C5: while enabled is false, update(delta) leaves every field of every live
\* particle unchanged, for any delta and any number of calls.
C5_DisabledFreeze ==
    (lastOp.name = "update" /\ ~enabled) => snowflakes = prevFlakes

\* A disabled update with time passing over a non-empty population
C5_Witness ==
    /\ lastOp.name = "update"
    /\ ~enabled
    /\ lastOp.delta > 0
    /\ Len(snowflakes) > 0
    /\ \E k \in 1..Len(snowflakes) : snowflakes[k].speed > 0

\* Where update(delta) moves flake f vertically before the bounds check
FallenY(f, d) == f.y + f.speed * d

\* C9: whenever a step moves a particle's y beyond canvasHeight + 10 the
\* particle is reset in that step and its y is -10 afterwards; a step leaves
\* y either at the advanced position or at -10, never at a random height.
C9_RespawnAtTop ==
    (lastOp.name = "update" /\ enabled) =>
        /\ Len(snowflakes) = Len(prevFlakes)
        /\ \A k \in 1..Len(prevFlakes) :
              LET f  == prevFlakes[k]
                  y1 == FallenY(f, lastOp.delta)
              IN  /\ y1 > (f.canvasHeight + 10) * U => snowflakes[k].y = -10 * U
                  /\ snowflakes[k].y \in {y1, -10 * U}

\* An enabled step in which some particle fell past the bottom edge
C9_Witness ==
    /\ lastOp.name = "update"
    /\ enabled
    /\ \E k \in 1..Len(prevFlakes) :
          /\ FallenY(prevFlakes[k], lastOp.delta) > (prevFlakes[k].canvasHeight + 10) * U
          /\ prevFlakes[k].y <= (prevFlakes[k].canvasHeight + 10) * U
          /\ snowflakes[k].y = -10 * U

\* The particle sits one unit beyond the right wrap edge
AtWidthPlus11(f) == f.x = (f.canvasWidth + 11) * U

\* C10 as stated: a particle with x = width + 11 has x = -10 after one step,
\* for every drift, fall speed, y and delta >= 0.
C10_WrapFromWidthPlus11 ==
    (lastOp.name = "update" /\ enabled) =>
        \A k \in 1..Len(prevFlakes) :
            AtWidthPlus11(prevFlakes[k]) => snowflakes[k].x = -10 * U

\* C10 amended: a particle with x = width + 11 has x = -10 after one step
\* provided the step does not respawn it (y + speed*delta*60 <= height + 10)
\* and its drift leaves it beyond the edge (x + drift*delta*60 > width + 10).
C10_WrapWhenStillBeyondEdge ==
    (lastOp.name = "update" /\ enabled) =>
        \A k \in 1..Len(prevFlakes) :
            LET f == prevFlakes[k]
            IN  (/\ AtWidthPlus11(f)
                 /\ ~OutOfBounds(f, FallenY(f, lastOp.delta))
                 /\ f.x + f.drift * lastOp.delta > (f.canvasWidth + 10) * U)
                    => snowflakes[k].x = -10 * U

\* An enabled step wrapped a particle that stood at width + 11
C10_Witness ==
    /\ lastOp.name = "update"
    /\ enabled
    /\ \E k \in 1..Len(prevFlakes) :
          /\ AtWidthPlus11(prevFlakes[k])
          /\ ~OutOfBounds(prevFlakes[k], FallenY(prevFlakes[k], lastOp.delta))
          /\ snowflakes[k].x = -10 * U

----------------------------------------------------------------------------
(* Renderer claims *)

\* The shape one fillRect call paints, as (fill, x, y, radius) of its centre
RectShape(fill, call) ==
    <<fill, call[2] + call[4] \div 2, call[3] + call[5] \div 2, call[4] \div 2>>

\* The shapes one fill(path) call paints: one per arc of the path
PathShapes(fill, path) ==
    LET Arcs == { n \in 1..Len(path) : path[n][1] = "arc" }
        Shape(n) == <<fill, path[n][2], path[n][3], path[n][4]>>
    IN  [ sh \in { Shape(n) : n \in Arcs } |->
            Cardinality({ n \in Arcs : Shape(n) = sh }) ]

RECURSIVE EmittedShapes(_, _, _)
\* The multiset of shapes the calls log[n..] paint, fill being the fill
\* colour the surface holds when call n is issued
EmittedShapes(log, n, fill) ==
    IF n > Len(log) THEN EmptyBag
    ELSE LET call == log[n]
         IN  IF call[1] = "fillStyle" THEN EmittedShapes(log, n + 1, call[2])
             ELSE IF call[1] = "fillRect"
             THEN SetToBag({RectShape(fill, call)}) (+) EmittedShapes(log, n + 1, fill)
             ELSE IF call[1] = "fill"
             THEN PathShapes(fill, call[2]) (+) EmittedShapes(log, n + 1, fill)
             ELSE EmittedShapes(log, n + 1, fill)

RECURSIVE IndividualShapes(_, _)
\* The multiset of shapes painted by drawing each of flakes[k..] on its own,
\* with its own fill
IndividualShapes(flakes, k) ==
    IF k > Len(flakes) THEN EmptyBag
    ELSE SetToBag({<<flakes[k].fillStyle, flakes[k].x, flakes[k].y, flakes[k].radius>>})
         (+) IndividualShapes(flakes, k + 1)

NoFill == <<"rgba", 0, 0, 0, 0>>

FillStyles(flakes) == { flakes[k].fillStyle : k \in 1..Len(flakes) }

IsSmall(f) == f.radius <= SMALL_FLAKE_THRESHOLD * U

CallCount(log, name) == Cardinality({ n \in 1..Len(log) : log[n][1] = name })

DrewEnabled == lastOp.name = "draw" /\ enabled

\* C6: one draw() while enabled renders every live particle exactly once with
\* its own fill at its own (x, y, radius): the multiset of shapes of the
\* batched draw equals that of drawing each particle individually.
C6_BatchedEqualsIndividual ==
    DrewEnabled =>
        EmittedShapes(ctxLog, 1, NoFill) = IndividualShapes(snowflakes, 1)

\* A draw of small and large particles in several groups, one of them shared
C6_Witness ==
    /\ DrewEnabled
    /\ \E k \in 1..Len(snowflakes) : IsSmall(snowflakes[k])
    /\ \E k \in 1..Len(snowflakes) : ~IsSmall(snowflakes[k])
    /\ Cardinality(FillStyles(snowflakes)) >= 2
    /\ Cardinality(FillStyles(snowflakes)) < Len(snowflakes)

\* C7 as stated: in one draw() the fillRect calls plus the fill calls are at
\* most twice the number of distinct fill descriptors among the particles.
C7_DrawCallsAtMostTwicePerStyle ==
    DrewEnabled =>
        CallCount(ctxLog, "fillRect") + CallCount(ctxLog, "fill")
            <= 2 * Cardinality(FillStyles(snowflakes))

\* C7 amended: in one draw() the fill calls are at most the number of
\* distinct fill descriptors and there is one fillRect call per particle of
\* radius <= 2.
C7_FillPerStyleRectPerSmallFlake ==
    DrewEnabled =>
        /\ CallCount(ctxLog, "fill") <= Cardinality(FillStyles(snowflakes))
        /\ CallCount(ctxLog, "fillRect")
              = Cardinality({ k \in 1..Len(snowflakes) : IsSmall(snowflakes[k]) })

\* A draw in which one group holds several large particles and several
\* small ones
C7_Witness ==
    /\ DrewEnabled
    /\ \E st \in FillStyles(snowflakes) :
          /\ Len(GroupLarge(snowflakes, st)) >= 2
          /\ Len(GroupSmall(snowflakes, st)) >= 2

----------------------------------------------------------------------------
(* Life-cycle claims *)

\* C11: toggle() flips enabled and persists it: after toggle() calls the
\* stored 'snowEnabled' is the string form of the current enabled flag, and
\* a SnowEffect constructed afterwards starts with the value the latest
\* toggle() left, whatever the season.
C11_TogglePersists ==
    /\ (lastOp.name = "toggle" /\ phase = "live") =>
            /\ enabled = ~prevLife.enabled
            /\ stored = String(enabled)
    /\ (phase = "live" /\ toggleVal # "none") =>
            /\ stored = toggleVal
            /\ String(enabled) = toggleVal

\* A SnowEffect constructed after a reload starts with the toggled value,
\* which is not the seasonal default
C11_Witness ==
    /\ lastOp.name = "construct"
    /\ phase = "live"
    /\ toggleVal # "none"
    /\ enabled # (month \in {12, 1})

\* C12: while enabled is false nothing is painted on the snow surface.
C12_DisabledSurfaceBlank ==
    ~enabled => painted = {}

\* toggle() switched a painted surface off
C12_Witness ==
    /\ lastOp.name = "toggle"
    /\ phase = "live"
    /\ ~enabled
    /\ prevLife.painted # {}

\* C13: cleanup() is idempotent: after the first call the resize listener
\* is detached and the canvas removed from its parent; a second call raises
\* no error and changes no state.
C13_CleanupIdempotent ==
    (lastOp.name = "cleanup" /\ phase = "cleaned") =>
        /\ ~listener
        /\ ~attached
        /\ ~thrown
        /\ prevLife.phase = "cleaned" => Life = prevLife

\* cleanup() ran on a SnowEffect already cleaned up
C13_Witness ==
    /\ lastOp.name = "cleanup"
    /\ phase = "cleaned"
    /\ prevLife.phase = "cleaned"

\* C14: once cleanup() has returned, resize() never runs again, even if a
\* debounced call was pending when cleanup() was called.
C14_NoResizeAfterCleanup ==
    phase = "cleaned" => lastOp.name # "resize"

\* C15: when the canvas or its context cannot be created (an error is
\* raised or the context is null) the constructor fails, the host holds its
\* no-op stand-in, and no later update() or draw() raises.
C15_FailedSurfaceFallsBack ==
    /\ ~ctxOk => phase = "standin"
    /\ lastOp.name \in {"update", "draw"} => ~thrown

\* C16: at construction enabled is the stored preference (true exactly
\* when the stored string is 'true') whenever one is stored, and otherwise
\* whether the current month is a winter month.
C16_InitialEnabled ==
    (lastOp.name = "construct" /\ phase = "live") =>
        /\ stored # "<null>" => (enabled <=> stored = "true")
        /\ stored = "<null>" => (enabled <=> month \in {12, 1})

\* Constructed in December with the preference 'false' stored
C16_Witness ==
    /\ lastOp.name = "construct"
    /\ phase = "live"
    /\ stored = "false"
    /\ month = 12

----------------------------------------------------------------------------
(* Collection claims *)

\* The identities of the particles of a collection, in its order
Ids(flakes) == [ k \in 1..Len(flakes) |-> flakes[k].id ]

\* Layer, position, velocity and opacity of a particle
Motion(f) == <<f.layer, f.x, f.y, f.speed, f.drift, f.opacity>>

\* resize() ran with the stated target above the current count
GrowthDue ==
    /\ lastOp.name = "resize"
    /\ PopulationTarget(lastOp.w, lastOp.h) > Len(prevFlakes)

\* C21: on growth (target > current) exactly target - current particles are
\* appended; every particle live before stays, in the same relative order,
\* with its layer, position, velocity and opacity unchanged.
C21_GrowthAppends ==
    GrowthDue =>
        /\ Len(snowflakes) = PopulationTarget(lastOp.w, lastOp.h)
        /\ \A k \in 1..Len(prevFlakes) :
              /\ snowflakes[k].id = prevFlakes[k].id
              /\ Motion(snowflakes[k]) = Motion(prevFlakes[k])

\* C22: a particle leaves the collection only when resize() shrinks the
\* population: update(), draw() and toggle() never add, remove, replace or
\* reorder elements, and a resize() that does not shrink keeps every
\* particle in place.
C22_OnlyShrinkRemoves ==
    /\ lastOp.name \in {"update", "draw", "toggle"} =>
            Ids(snowflakes) = Ids(prevFlakes)
    /\ (lastOp.name = "resize" /\ ~Shrank) =>
            /\ Len(snowflakes) >= Len(prevFlakes)
            /\ SubSeq(Ids(snowflakes), 1, Len(prevFlakes)) = Ids(prevFlakes)

\* An update() reset a particle that fell past the bottom edge
C22_Witness ==
    /\ lastOp.name = "update"
    /\ enabled
    /\ \E k \in 1..Len(prevFlakes) :
          OutOfBounds(prevFlakes[k],
                      prevFlakes[k].y + prevFlakes[k].speed * lastOp.delta)

\* C23: only the first population places particles at a random height:
\* every particle created by growth on a resize(), and every respawned
\* particle, starts at y = -10.
C23_LateParticlesStartAbove ==
    /\ lastOp.name = "resize" =>
            \A k \in 1..Len(snowflakes) :
                k > Len(prevFlakes) => snowflakes[k].y = -10 * U
    /\ (lastOp.name = "update" /\ enabled) =>
            \A k \in 1..Len(snowflakes) :
                OutOfBounds(prevFlakes[k], FallenY(prevFlakes[k], lastOp.delta))
                    => snowflakes[k].y = -10 * U

\* Layers of the particles of prevFlakes still live, by identity
SameLayers ==
    \A k \in 1..Len(snowflakes), j \in 1..Len(prevFlakes) :
        snowflakes[k].id = prevFlakes[j].id
            => snowflakes[k].layer = prevFlakes[j].layer

\* C24: every live particle's layer is in {0, 1, 2} and never changes after
\* creation: no step, respawn, resize, growth or shrink alters it.
C24_LayerFixed ==
    /\ \A k \in 1..Len(snowflakes) : snowflakes[k].layer \in {0, 1, 2}
    /\ lastOp.name \in {"update", "resize", "draw", "toggle"} => SameLayers

\* An update() respawned a particle of the foreground layer, and particles of
\* the other layers are live
C24_Witness ==
    /\ lastOp.name = "update"
    /\ enabled
    /\ \E k \in 1..Len(prevFlakes) :
          /\ prevFlakes[k].layer = 2
          /\ OutOfBounds(prevFlakes[k], FallenY(prevFlakes[k], lastOp.delta))
    /\ \E k \in 1..Len(snowflakes) : snowflakes[k].layer # 2

\* C25: every particle's opacity is a multiple of 0.1 within [0, 1], so a
\* draw() opens at most 30 fill-descriptor groups.
C25_OpacityQuantized ==
    /\ \A k \in 1..Len(snowflakes) :
          /\ snowflakes[k].opacity % (U \div 10) = 0
          /\ snowflakes[k].opacity >= 0
          /\ snowflakes[k].opacity <= U
    /\ DrewEnabled => CallCount(ctxLog, "fillStyle") <= 30

\* C26: after construction and after every resize() every live particle's
\* cached bounds equal the dimensions of the canvas, for particles that
\* existed before and for particles just created; they stay so until the
\* next resize().
C26_BoundsCurrent ==
    phase = "live" =>
        \A k \in 1..Len(snowflakes) :
            /\ snowflakes[k].canvasWidth = canvasWidth
            /\ snowflakes[k].canvasHeight = canvasHeight

\* A resize() changed the canvas and kept particles created for the old one
C26_Witness ==
    /\ lastOp.name = "resize"
    /\ \E k \in 1..Len(snowflakes), j \in 1..Len(prevFlakes) :
          /\ snowflakes[k].id = prevFlakes[j].id
          /\ prevFlakes[j].canvasWidth # canvasWidth
    /\ Len(snowflakes) > Len(prevFlakes)

\* C27: resize() is idempotent for an unchanged viewport: a second resize()
\* with the same window dimensions leaves the collection unchanged, whatever
\* the first call started from and whatever Math.random() returns.
C27_ResizeIdempotent ==
    lastOp.name = "resize" =>
        \A s \in RandomStreams :
            resizeFlakes(impl, snowflakes, canvasWidth, canvasHeight, s, nextId)
                = snowflakes

\* C28: right after every update(delta) with delta >= 0 while enabled every
\* live particle has -10 <= x <= canvasWidth + 10 and
\* -10 <= y <= canvasHeight + 10.
C28_UpdateKeepsInBounds ==
    (lastOp.name = "update" /\ enabled) =>
        \A k \in 1..Len(snowflakes) :
            /\ snowflakes[k].x >= -10 * U
            /\ snowflakes[k].x <= (canvasWidth + 10) * U
            /\ snowflakes[k].y >= -10 * U
            /\ snowflakes[k].y <= (canvasHeight + 10) * U

\* The first update() after a resize() that shrank the viewport found a
\* particle outside the new bounds
C28_Witness ==
    /\ lastOp.name = "update"
    /\ enabled
    /\ \E k \in 1..Len(prevFlakes) :
          \/ prevFlakes[k].x > (canvasWidth + 10) * U
          \/ prevFlakes[k].y > (canvasHeight + 10) * U

====
